---- MODULE Spec2Model ----
(***************************************************************************)
(* Model of the batch LP harness of src/main.cc (unified_lp_solver).       *)
(*                                                                         *)
(* One process invocation is a run of main: argument parsing, loading the  *)
(* batch file, dispatching to the parallel or the serial backend,          *)
(* aggregating the solutions while appending the successful ones to the    *)
(* answer file, printing the summary.  The file system (the batch file and *)
(* the two answer files) outlives a run, so that several runs in a row     *)
(* can be compared.                                                        *)
(*                                                                         *)
(* The solving backend (paraSim, paraSim_threadp) is not part of           *)
(* src/main.cc; Solve and solve_batch model its documented contract.       *)
(* wall_clock_time_ms and the derived ratios are not modelled.             *)
(***************************************************************************)
EXTENDS Integers, Sequences, FiniteSets, TLC

\* ------------------------------------------------------------------ bounds

MaxArgs == 2        \* longest command line (arguments after argv[0])
MaxProblems == 2    \* most records in the batch file
MaxRuns == 2        \* process invocations in a row

\* --------------------------------------------------------------- constants

DefaultThreads == 4

\* How a process ends: return 0, return 1, abort() from a failed assert or
\* from std::terminate, a memory fault.  "running": it has not ended.
ExitStatuses == {"0", "1", "SIGABRT", "SIGSEGV"}

DefaultFile == "problems.json"
OtherFile == "in.json"
ParallelArtifact == "answer_parallel.txt"
SerialArtifact == "answer_serial.txt"
Artifacts == {ParallelArtifact, SerialArtifact}

\* Words a command line is made of.  "1" is the only one std::stoi converts.
Tokens ==
    {"--parallel", "--serial", "--threads", "--file", "--help", "--bogus", "1", OtherFile}

\* A record of the batch file: a solvable LP, an infeasible LP, or a record
\* that has no "c" key.
ProblemKinds == {"feasible", "infeasible"}
RecordKinds == ProblemKinds \cup {"noC"}

RECURSIVE SeqsUpTo(_, _)
SeqsUpTo(S, n) ==
    IF n = 0 THEN {<<>>}
    ELSE LET shorter == SeqsUpTo(S, n - 1)
         IN  shorter \cup {Append(s, x) : s \in {t \in shorter : Len(t) = n - 1}, x \in S}

Argvs == SeqsUpTo(Tokens, MaxArgs)

\* What the batch file holds: text that is not JSON, or an array of records.
BatchContents ==
    {[wellformed |-> FALSE, records |-> <<>>]}
    \cup {[wellformed |-> TRUE, records |-> r] : r \in SeqsUpTo(RecordKinds, MaxProblems)}

VARIABLES
    \* the build and the environment, fixed for a behaviour
    NDEBUG,         \* the build defines NDEBUG: assert() expands to nothing
    batch,          \* content of the one batch file that exists
    place,          \* its path
    dirWritable,    \* the answer files can be opened for writing
    \* the file system
    artifact,       \* answer file -> [exists, blocks]
    \* the running process
    pc, argv, parallel_mode, thread_count, filename,
    problems, results, stats, idx, out_file,
    \* what the run did, as seen from outside
    printed,        \* messages the harness printed
    exit_status,
    failure,        \* the failure that ended the run, "none" if none did
    files_read,     \* paths handed to std::ifstream
    solve_calls,    \* problems (by index) passed to SerialSolver::solve, in order
    batch_calls,    \* thread counts of the ParallelSolver::solve_batch calls
    artifact0,      \* the answer files as they were when the run started
    \* across runs
    runs,
    report          \* mode -> the last summary printed in that mode

envVars == <<NDEBUG, batch, place, dirWritable>>
procVars == <<pc, argv, parallel_mode, thread_count, filename,
              problems, results, stats, idx, out_file>>
obsVars == <<printed, exit_status, failure, files_read, solve_calls, batch_calls, artifact0>>
vars == <<envVars, artifact, procVars, obsVars, runs, report>>

ZeroStats ==
    [total_problems |-> 0, success_count |-> 0, fail_count |-> 0,
     total_iterations |-> 0, total_solve_time_ms |-> 0]

NoReport == [valid |-> FALSE, problems |-> <<>>, thread_count |-> 0, stats |-> ZeroStats]

ModeName(par) == IF par THEN "parallel" ELSE "serial"

Init ==
    /\ NDEBUG \in BOOLEAN
    /\ batch \in BatchContents
    /\ place \in {DefaultFile, OtherFile}
    /\ dirWritable \in BOOLEAN
    /\ artifact = [a \in Artifacts |-> [exists |-> FALSE, blocks |-> <<>>]]
    /\ pc = "none"
    /\ argv = <<>>
    /\ parallel_mode = TRUE
    /\ thread_count = DefaultThreads
    /\ filename = DefaultFile
    /\ problems = <<>>
    /\ results = <<>>
    /\ stats = ZeroStats
    /\ idx = 0
    /\ out_file = "unopened"
    /\ printed = {}
    /\ exit_status = "running"
    /\ failure = "none"
    /\ files_read = {}
    /\ solve_calls = <<>>
    /\ batch_calls = <<>>
    /\ artifact0 = artifact
    /\ runs = 0
    /\ report = [m \in {"parallel", "serial"} |-> NoReport]

\* ------------------------------------------------------------ the backend

\* SerialSolver::solve on one problem.  The result depends on the problem
\* alone; exitflag 1 is success.  A problem of malformed shape (a garbage
\* objective) is a failure of the backend.
Solve(p) ==
    IF p = "feasible"
    THEN [problem |-> p, exitflag |-> 1, iterations |-> 3, total_time_ms |-> 2]
    ELSE IF p = "infeasible"
    THEN [problem |-> p, exitflag |-> 0, iterations |-> 5, total_time_ms |-> 1]
    ELSE [problem |-> p, exitflag |-> -1, iterations |-> 0, total_time_ms |-> 1]

\* ParallelSolver(n).solve_batch: one solution per problem, index-correspondent,
\* whatever the worker count.
solve_batch(ps, n) == [i \in 1..Len(ps) |-> Solve(ps[i])]

\* LP_solution::get_data_string: the text block of a problem and its solution.
get_data_string(r) == <<"block", r.problem, r.exitflag, r.iterations>>

\* ------------------------------------------------------- argument parsing

CanStoi(t) == t = "1"
Stoi(t) == IF t = "1" THEN 1 ELSE 0

DefaultOptions ==
    [outcome |-> "run", parallel_mode |-> TRUE,
     thread_count |-> DefaultThreads, filename |-> DefaultFile]

\* ParseFrom with --file not taking the next argument with it.
RECURSIVE ParseFromFileKeepsNext(_, _, _)
ParseFromFileKeepsNext(av, i, opt) ==
    IF i > Len(av) THEN opt
    ELSE LET arg == av[i] IN
         IF arg = "--parallel"
         THEN ParseFromFileKeepsNext(av, i + 1, [opt EXCEPT !.parallel_mode = TRUE])
         ELSE IF arg = "--serial"
         THEN ParseFromFileKeepsNext(av, i + 1, [opt EXCEPT !.parallel_mode = FALSE])
         ELSE IF arg = "--threads" /\ i + 1 <= Len(av)
              THEN IF CanStoi(av[i + 1])
                   THEN ParseFromFileKeepsNext(av, i + 2,
                                               [opt EXCEPT !.thread_count = Stoi(av[i + 1])])
                   ELSE [opt EXCEPT !.outcome = "terminate"]
         ELSE IF arg = "--file" /\ i + 1 <= Len(av)
              THEN ParseFromFileKeepsNext(av, i + 1, [opt EXCEPT !.filename = av[i + 1]])
         ELSE IF arg = "--help" THEN [opt EXCEPT !.outcome = "help"]
         ELSE [opt EXCEPT !.outcome = "unknown"]

\* The loop of main over argv[i], i >= 1.  outcome: "run" (the loop ended),
\* "help", "unknown", or "terminate" (std::stoi threw outside any try block).
RECURSIVE ParseFrom(_, _, _)
ParseFrom(av, i, opt) ==
    IF i > Len(av) THEN opt
    ELSE LET arg == av[i] IN
         IF arg = "--parallel" THEN ParseFrom(av, i + 1, [opt EXCEPT !.parallel_mode = TRUE])
         ELSE IF arg = "--serial" THEN ParseFrom(av, i + 1, [opt EXCEPT !.parallel_mode = FALSE])
         ELSE IF arg = "--threads" /\ i + 1 <= Len(av)
              THEN IF CanStoi(av[i + 1])
                   THEN ParseFrom(av, i + 2, [opt EXCEPT !.thread_count = Stoi(av[i + 1])])
                   ELSE [opt EXCEPT !.outcome = "terminate"]
         ELSE IF arg = "--file" /\ i + 1 <= Len(av)
              THEN ParseFrom(av, i + 2, [opt EXCEPT !.filename = av[i + 1]])
         ELSE IF arg = "--help" THEN [opt EXCEPT !.outcome = "help"]
         ELSE [opt EXCEPT !.outcome = "unknown"]

ParseArgs(av) == ParseFrom(av, 1, DefaultOptions)

\* ----------------------------------------------------------------- loader

FileAt(name) ==
    IF name = place
    THEN [exists |-> TRUE, wellformed |-> batch.wellformed, records |-> batch.records]
    ELSE [exists |-> FALSE, wellformed |-> FALSE, records |-> <<>>]

Loaded(ps) == [kind |-> "ok", problems |-> ps]
Thrown == [kind |-> "throw", problems |-> <<>>]
Aborted == [kind |-> "abort", problems |-> <<>>]
Crashed == [kind |-> "crash", problems |-> <<>>]

\* The loop of read_problems_from_file over the records.  problem_json is a
\* const reference, so problem_json["c"] is the const operator[] of
\* nlohmann::json: for an absent key it fails a runtime assertion, and with
\* assertions compiled out it dereferences the end iterator, which is
\* undefined: a memory fault, a type_error on the garbage read, or a problem
\* whose objective is garbage.
RECURSIVE LoadRecords(_, _)
LoadRecords(recs, acc) ==
    IF recs = <<>> THEN {Loaded(acc)}
    ELSE LET r == Head(recs) IN
         IF r # "noC" THEN LoadRecords(Tail(recs), Append(acc, r))
         ELSE IF ~NDEBUG THEN {Aborted}
         ELSE {Crashed, Thrown} \cup LoadRecords(Tail(recs), Append(acc, "garbage"))

\* read_problems_from_file without the is_open check: a file that is not
\* there reads as an empty batch.
read_problems_unchecked(name) ==
    LET f == FileAt(name) IN
    IF ~f.exists THEN {Loaded(<<>>)}
    ELSE IF ~f.wellformed THEN {Thrown}
    ELSE LoadRecords(f.records, <<>>)

\* The outcomes of read_problems_from_file(name).
read_problems_from_file(name) ==
    LET f == FileAt(name) IN
    IF ~f.exists THEN {Thrown}
    ELSE IF ~f.wellformed THEN {Thrown}
    ELSE LoadRecords(f.records, <<>>)

\* ------------------------------------------------------------ aggregation

\* AggregateParallel with the sums taken over the successful solutions only.
AggregateParallelSuccessOnly(st, r) ==
    [st EXCEPT
        !.success_count = IF r.exitflag = 1 THEN @ + 1 ELSE @,
        !.fail_count = IF r.exitflag = 1 THEN @ ELSE @ + 1,
        !.total_iterations = IF r.exitflag = 1 THEN @ + r.iterations ELSE @,
        !.total_solve_time_ms = IF r.exitflag = 1 THEN @ + r.total_time_ms ELSE @]

\* AggregateParallel with every exitflag >= 0 counted as a success.
AggregateParallelNonNegative(st, r) ==
    [st EXCEPT
        !.success_count = IF r.exitflag >= 0 THEN @ + 1 ELSE @,
        !.fail_count = IF r.exitflag >= 0 THEN @ ELSE @ + 1,
        !.total_iterations = @ + r.iterations,
        !.total_solve_time_ms = @ + r.total_time_ms]

\* One iteration of the loop of solve_parallel over the results: the counters.
AggregateParallel(st, r) ==
    [st EXCEPT
        !.success_count = IF r.exitflag = 1 THEN @ + 1 ELSE @,
        !.fail_count = IF r.exitflag = 1 THEN @ ELSE @ + 1,
        !.total_iterations = @ + r.iterations,
        !.total_solve_time_ms = @ + r.total_time_ms]

\* AggregateSerial without the else branch: a failure is not counted.
AggregateSerialDropsFail(st, r) ==
    [st EXCEPT
        !.success_count = IF r.exitflag = 1 THEN @ + 1 ELSE @,
        !.total_iterations = @ + r.iterations,
        !.total_solve_time_ms = @ + r.total_time_ms]

\* The same iteration in solve_serial.
AggregateSerial(st, r) ==
    [st EXCEPT
        !.success_count = IF r.exitflag = 1 THEN @ + 1 ELSE @,
        !.fail_count = IF r.exitflag = 1 THEN @ ELSE @ + 1,
        !.total_iterations = @ + r.iterations,
        !.total_solve_time_ms = @ + r.total_time_ms]

\* std::ofstream(path, std::ios::app) on a file that can be opened: the file
\* is created when absent, its content is kept.
OpenAppend(f) == [exists |-> TRUE, blocks |-> f.blocks]

\* out_file << result.get_data_string() inside `if (result.exitflag == 1)`.
\* A stream that failed to open drops what is written to it.
Persist(f, r, stream) ==
    IF r.exitflag = 1 /\ stream = "open"
    THEN [f EXCEPT !.blocks = Append(@, get_data_string(r))]
    ELSE f

\* ----------------------------------------------------------------- actions

\* A process is started with the command line av.
Exec(av) ==
    /\ runs' = runs + 1
    /\ argv' = av
    /\ artifact0' = artifact
    /\ UNCHANGED <<envVars, artifact, report,
                   problems, results, stats, idx, out_file,
                   files_read, solve_calls, batch_calls>>

SetOptions(o) ==
    /\ parallel_mode' = o.parallel_mode
    /\ thread_count' = o.thread_count
    /\ filename' = o.filename

\* main: the argument loop reaches --help.
main_help ==
    /\ pc = "none"
    /\ runs < MaxRuns
    /\ \E av \in Argvs :
        LET o == ParseArgs(av) IN
        /\ o.outcome = "help"
        /\ Exec(av)
        /\ SetOptions(o)
        /\ printed' = {"usage"}
        /\ exit_status' = "0"
        /\ failure' = "none"
        /\ pc' = "exited"

\* main: the argument loop reaches an argument it does not know.
main_unknown ==
    /\ pc = "none"
    /\ runs < MaxRuns
    /\ \E av \in Argvs :
        LET o == ParseArgs(av) IN
        /\ o.outcome = "unknown"
        /\ Exec(av)
        /\ SetOptions(o)
        /\ printed' = {"unknown", "usage"}
        /\ exit_status' = "1"
        /\ failure' = "unknown_flag"
        /\ pc' = "exited"

\* main: std::stoi throws on the value of --threads; nothing catches it.
main_stoi_throws ==
    /\ pc = "none"
    /\ runs < MaxRuns
    /\ \E av \in Argvs :
        LET o == ParseArgs(av) IN
        /\ o.outcome = "terminate"
        /\ Exec(av)
        /\ SetOptions(o)
        /\ printed' = {}
        /\ exit_status' = "SIGABRT"
        /\ failure' = "bad_option_value"
        /\ pc' = "exited"

\* main: the argument loop ends; the try block is entered.
main_parsed ==
    /\ pc = "none"
    /\ runs < MaxRuns
    /\ \E av \in Argvs :
        LET o == ParseArgs(av) IN
        /\ o.outcome = "run"
        /\ Exec(av)
        /\ SetOptions(o)
        /\ UNCHANGED <<printed, exit_status, failure>>
        /\ pc' = "load"

\* main: read_problems_from_file returns; solve_parallel or solve_serial is
\* entered and sets total_problems.
main_load_ok ==
    /\ pc = "load"
    /\ \E out \in read_problems_from_file(filename) :
        /\ out.kind = "ok"
        /\ problems' = out.problems
        /\ stats' = [ZeroStats EXCEPT !.total_problems = Len(out.problems)]
    /\ files_read' = files_read \cup {filename}
    /\ pc' = IF parallel_mode THEN "par_batch" ELSE "ser_loop"
    /\ UNCHANGED <<envVars, artifact, report, runs, argv, parallel_mode, thread_count,
                   filename, results, idx, out_file, printed, exit_status, failure,
                   solve_calls, batch_calls, artifact0>>

Exit(status, why, says) ==
    /\ pc' = "exited"
    /\ exit_status' = status
    /\ failure' = why
    /\ printed' = printed \cup says

\* main: read_problems_from_file throws; the catch block prints the message
\* and returns 1.
main_load_throws ==
    /\ pc = "load"
    /\ Thrown \in read_problems_from_file(filename)
    /\ files_read' = files_read \cup {filename}
    /\ Exit("1", IF FileAt(filename).exists THEN "malformed_input" ELSE "unreadable_file",
            {"error"})
    /\ UNCHANGED <<envVars, artifact, report, runs, argv, parallel_mode, thread_count,
                   filename, problems, results, stats, idx, out_file,
                   solve_calls, batch_calls, artifact0>>

\* read_problems_from_file: the assertion of the const operator[] fails on a
\* record without "c"; the process aborts.
main_load_aborts ==
    /\ pc = "load"
    /\ Aborted \in read_problems_from_file(filename)
    /\ files_read' = files_read \cup {filename}
    /\ Exit("SIGABRT", "malformed_input", {})
    /\ UNCHANGED <<envVars, artifact, report, runs, argv, parallel_mode, thread_count,
                   filename, problems, results, stats, idx, out_file,
                   solve_calls, batch_calls, artifact0>>

\* read_problems_from_file: the read past the end of the record faults.
main_load_crashes ==
    /\ pc = "load"
    /\ Crashed \in read_problems_from_file(filename)
    /\ files_read' = files_read \cup {filename}
    /\ Exit("SIGSEGV", "malformed_input", {})
    /\ UNCHANGED <<envVars, artifact, report, runs, argv, parallel_mode, thread_count,
                   filename, problems, results, stats, idx, out_file,
                   solve_calls, batch_calls, artifact0>>

\* solve_parallel: the whole batch goes to ParallelSolver(thread_count) in one call.
solve_parallel_batch ==
    /\ pc = "par_batch"
    /\ results' = solve_batch(problems, thread_count)
    /\ batch_calls' = Append(batch_calls, thread_count)
    /\ pc' = "par_open"
    /\ UNCHANGED <<envVars, artifact, report, runs, argv, parallel_mode, thread_count,
                   filename, problems, stats, idx, out_file, printed, exit_status, failure,
                   files_read, solve_calls, artifact0>>

\* solve_parallel: the answer file is opened in append mode and the assertion
\* on it passes, or is compiled out.
solve_parallel_open ==
    /\ pc = "par_open"
    /\ dirWritable \/ NDEBUG
    /\ IF dirWritable
       THEN /\ artifact' = [artifact EXCEPT ![ParallelArtifact] = OpenAppend(@)]
            /\ out_file' = "open"
       ELSE /\ artifact' = artifact
            /\ out_file' = "failed"
    /\ idx' = 1
    /\ pc' = "par_agg"
    /\ UNCHANGED <<envVars, report, runs, argv, parallel_mode, thread_count, filename,
                   problems, results, stats, obsVars>>

\* solve_parallel: the answer file cannot be opened and the assertion fails.
solve_parallel_assert_fails ==
    /\ pc = "par_open"
    /\ ~dirWritable
    /\ ~NDEBUG
    /\ out_file' = "failed"
    /\ Exit("SIGABRT", "output_unopenable", {})
    /\ UNCHANGED <<envVars, artifact, report, runs, argv, parallel_mode, thread_count,
                   filename, problems, results, stats, idx,
                   files_read, solve_calls, batch_calls, artifact0>>

\* solve_parallel: one iteration of the loop over the results.
solve_parallel_aggregate ==
    /\ pc = "par_agg"
    /\ idx <= Len(results)
    /\ stats' = AggregateParallel(stats, results[idx])
    /\ artifact' = [artifact EXCEPT ![ParallelArtifact] = Persist(@, results[idx], out_file)]
    /\ idx' = idx + 1
    /\ UNCHANGED <<envVars, report, runs, pc, argv, parallel_mode, thread_count, filename,
                   problems, results, out_file, obsVars>>

\* solve_parallel: the loop ends, the file is closed, the statistics are returned.
solve_parallel_return ==
    /\ pc = "par_agg"
    /\ idx > Len(results)
    /\ out_file' = "closed"
    /\ pc' = "print"
    /\ UNCHANGED <<envVars, artifact, report, runs, argv, parallel_mode, thread_count,
                   filename, problems, results, stats, idx, obsVars>>

\* solve_serial_step with a failed solve tried once more.
solve_serial_step_retries ==
    /\ pc = "ser_loop"
    /\ Len(results) < Len(problems)
    /\ LET i == Len(results) + 1 IN
        /\ results' = Append(results, Solve(problems[i]))
        /\ solve_calls' = IF Solve(problems[i]).exitflag = 1
                          THEN Append(solve_calls, i)
                          ELSE solve_calls \o <<i, i>>
    /\ UNCHANGED <<envVars, artifact, report, runs, pc, argv, parallel_mode, thread_count,
                   filename, problems, stats, idx, out_file, printed, exit_status, failure,
                   files_read, batch_calls, artifact0>>

\* solve_serial: one iteration of the loop over the problems: the next problem
\* is solved and its result pushed back.
solve_serial_step ==
    /\ pc = "ser_loop"
    /\ Len(results) < Len(problems)
    /\ LET i == Len(results) + 1 IN
        /\ results' = Append(results, Solve(problems[i]))
        /\ solve_calls' = Append(solve_calls, i)
    /\ UNCHANGED <<envVars, artifact, report, runs, pc, argv, parallel_mode, thread_count,
                   filename, problems, stats, idx, out_file, printed, exit_status, failure,
                   files_read, batch_calls, artifact0>>

\* solve_serial: the loop over the problems ends.
solve_serial_loop_end ==
    /\ pc = "ser_loop"
    /\ Len(results) >= Len(problems)
    /\ pc' = "ser_open"
    /\ UNCHANGED <<envVars, artifact, report, runs, argv, parallel_mode, thread_count,
                   filename, problems, results, stats, idx, out_file, obsVars>>

\* solve_serial: the answer file is opened in append mode and the assertion
\* on it passes, or is compiled out.
solve_serial_open ==
    /\ pc = "ser_open"
    /\ dirWritable \/ NDEBUG
    /\ IF dirWritable
       THEN /\ artifact' = [artifact EXCEPT ![SerialArtifact] = OpenAppend(@)]
            /\ out_file' = "open"
       ELSE /\ artifact' = artifact
            /\ out_file' = "failed"
    /\ idx' = 1
    /\ pc' = "ser_agg"
    /\ UNCHANGED <<envVars, report, runs, argv, parallel_mode, thread_count, filename,
                   problems, results, stats, obsVars>>

\* solve_serial: the answer file cannot be opened and the assertion fails.
solve_serial_assert_fails ==
    /\ pc = "ser_open"
    /\ ~dirWritable
    /\ ~NDEBUG
    /\ out_file' = "failed"
    /\ Exit("SIGABRT", "output_unopenable", {})
    /\ UNCHANGED <<envVars, artifact, report, runs, argv, parallel_mode, thread_count,
                   filename, problems, results, stats, idx,
                   files_read, solve_calls, batch_calls, artifact0>>

\* solve_serial: one iteration of the loop over the results.
solve_serial_aggregate ==
    /\ pc = "ser_agg"
    /\ idx <= Len(results)
    /\ stats' = AggregateSerial(stats, results[idx])
    /\ artifact' = [artifact EXCEPT ![SerialArtifact] = Persist(@, results[idx], out_file)]
    /\ idx' = idx + 1
    /\ UNCHANGED <<envVars, report, runs, pc, argv, parallel_mode, thread_count, filename,
                   problems, results, out_file, obsVars>>

\* solve_serial: the loop ends, the file is closed, the statistics are returned.
solve_serial_return ==
    /\ pc = "ser_agg"
    /\ idx > Len(results)
    /\ out_file' = "closed"
    /\ pc' = "print"
    /\ UNCHANGED <<envVars, artifact, report, runs, argv, parallel_mode, thread_count,
                   filename, problems, results, stats, idx, obsVars>>

\* main: print_statistics, then return 0.
main_print_statistics ==
    /\ pc = "print"
    /\ report' = [report EXCEPT ![ModeName(parallel_mode)] =
                    [valid |-> TRUE, problems |-> problems,
                     thread_count |-> thread_count, stats |-> stats]]
    /\ Exit("0", "none", {"summary"})
    /\ UNCHANGED <<envVars, artifact, runs, argv, parallel_mode, thread_count,
                   filename, problems, results, stats, idx, out_file,
                   files_read, solve_calls, batch_calls, artifact0>>

\* The ended process is gone; the next one starts from the defaults of main.
Reap ==
    /\ pc = "exited"
    /\ pc' = "none"
    /\ argv' = <<>>
    /\ parallel_mode' = TRUE
    /\ thread_count' = DefaultThreads
    /\ filename' = DefaultFile
    /\ problems' = <<>>
    /\ results' = <<>>
    /\ stats' = ZeroStats
    /\ idx' = 0
    /\ out_file' = "unopened"
    /\ printed' = {}
    /\ exit_status' = "running"
    /\ failure' = "none"
    /\ files_read' = {}
    /\ solve_calls' = <<>>
    /\ batch_calls' = <<>>
    /\ artifact0' = artifact
    /\ UNCHANGED <<envVars, artifact, report, runs>>

Next ==
    \/ main_help
    \/ main_unknown
    \/ main_stoi_throws
    \/ main_parsed
    \/ main_load_ok
    \/ main_load_throws
    \/ main_load_aborts
    \/ main_load_crashes
    \/ solve_parallel_batch
    \/ solve_parallel_open
    \/ solve_parallel_assert_fails
    \/ solve_parallel_aggregate
    \/ solve_parallel_return
    \/ solve_serial_step
    \/ solve_serial_loop_end
    \/ solve_serial_open
    \/ solve_serial_assert_fails
    \/ solve_serial_aggregate
    \/ solve_serial_return
    \/ main_print_statistics
    \/ Reap

Spec == Init /\ [][Next]_vars

\* ----------------------------------------------------------- vocabulary

Range(q) == {q[i] : i \in 1..Len(q)}

RECURSIVE SumOf(_, _)
SumOf(q, field) == IF q = <<>> THEN 0 ELSE Head(q)[field] + SumOf(Tail(q), field)

RECURSIVE SuccessBlocks(_)
SuccessBlocks(q) ==
    IF q = <<>> THEN <<>>
    ELSE (IF Head(q).exitflag = 1 THEN <<get_data_string(Head(q))>> ELSE <<>>)
         \o SuccessBlocks(Tail(q))

Successes(q) == Cardinality({i \in 1..Len(q) : q[i].exitflag = 1})
Failures(q) == Cardinality({i \in 1..Len(q) : q[i].exitflag # 1})

\* The run went through to the summary.
Completed == pc = "exited" /\ "summary" \in printed

ArtifactOf(par) == IF par THEN ParallelArtifact ELSE SerialArtifact

NothingSolved == solve_calls = <<>> /\ batch_calls = <<>>
NoArtifactTouched == out_file = "unopened" /\ artifact = artifact0

\* --------------------------------------------------------------- claims

\* C1: after a complete run, in either mode, success_count + fail_count equals
\* total_problems, which is the number of loaded problems.
C1_CountsAddUp ==
    Completed =>
        /\ stats.success_count + stats.fail_count = stats.total_problems
        /\ stats.total_problems = Len(problems)

C1_Witness ==
    /\ Completed
    /\ report["parallel"].valid
    /\ report["serial"].valid
    /\ stats.success_count >= 1
    /\ stats.fail_count >= 1

\* C9: after a complete run, total_iterations and total_solve_time_ms are the
\* sums over all returned solutions, failed ones included; the exitflag decides
\* only which of success_count and fail_count a solution counts in.
C9_SumsOverAll ==
    Completed =>
        /\ stats.total_iterations = SumOf(results, "iterations")
        /\ stats.total_solve_time_ms = SumOf(results, "total_time_ms")
        /\ stats.success_count = Successes(results)
        /\ stats.fail_count = Failures(results)

C9_Witness ==
    /\ Completed
    /\ parallel_mode
    /\ \E i \in 1..Len(results) : results[i].exitflag # 1 /\ results[i].iterations > 0
    /\ \E i \in 1..Len(results) : results[i].exitflag = 1

\* C5: on the same problem sequence, the summary of a serial run and the
\* summary of a parallel run with thread_count = 1 have the same success_count
\* and the same fail_count.
C5_SameCounts ==
    (/\ report["parallel"].valid
     /\ report["serial"].valid
     /\ report["parallel"].thread_count = 1
     /\ report["parallel"].problems = report["serial"].problems)
    => /\ report["parallel"].stats.success_count = report["serial"].stats.success_count
       /\ report["parallel"].stats.fail_count = report["serial"].stats.fail_count

C5_Witness ==
    /\ report["parallel"].valid
    /\ report["serial"].valid
    /\ report["parallel"].thread_count = 1
    /\ report["parallel"].problems = report["serial"].problems
    /\ report["serial"].stats.success_count >= 1
    /\ report["serial"].stats.fail_count >= 1

\* The serial run is past its loop over the problems.
SerialSolved ==
    /\ ~parallel_mode
    /\ pc \in {"ser_open", "ser_agg", "print"} \/ (pc = "exited" /\ out_file # "unopened")

\* C6: in the serial path solve is called exactly once per problem, in input
\* order, and the i-th result is the result of the i-th problem; a failed solve
\* is neither repeated nor ends the loop.
C6_OncePerProblemInOrder ==
    /\ pc = "ser_loop" =>
        /\ Len(results) <= Len(problems)
        /\ solve_calls = [i \in 1..Len(results) |-> i]
    /\ SerialSolved =>
        /\ solve_calls = [i \in 1..Len(problems) |-> i]
        /\ Len(results) = Len(problems)
        /\ \A i \in 1..Len(problems) : results[i] = Solve(problems[i])
        /\ batch_calls = <<>>

C6_Witness ==
    /\ SerialSolved
    /\ Len(problems) >= 2
    /\ Solve(problems[1]).exitflag # 1
    /\ solve_calls = <<1, 2>>

\* C4: a run that asks for a batch file that does not exist ends with a
\* non-zero status, and neither answer file is created, opened or written; no
\* run whose batch file does not exist touches an answer file at any point.
C4_MissingFile ==
    /\ (files_read # {} /\ ~FileAt(filename).exists) =>
            /\ pc = "exited"
            /\ exit_status \in ExitStatuses \ {"0"}
    /\ (pc # "none" /\ ~FileAt(filename).exists) =>
            /\ NoArtifactTouched
            /\ NothingSolved

C4_Witness ==
    /\ pc = "exited"
    /\ files_read = {DefaultFile}
    /\ ~FileAt(DefaultFile).exists
    /\ ~parallel_mode
    /\ "error" \in printed

\* C2 (as claimed): in a complete run every solution with exitflag 1 adds
\* exactly one block to the answer file of the selected mode, the others add
\* none, and what the file held before the run is kept in front of them.
C2_OneBlockPerSuccess ==
    Completed =>
        LET mine == ArtifactOf(parallel_mode)
            other == ArtifactOf(~parallel_mode)
        IN  /\ artifact[mine].blocks = artifact0[mine].blocks \o SuccessBlocks(results)
            /\ artifact[other] = artifact0[other]

HasRecordWithoutC(name) ==
    /\ FileAt(name).exists
    /\ FileAt(name).wellformed
    /\ "noC" \in Range(FileAt(name).records)

\* C3 (as claimed): once a batch file with a record that lacks "c" has been
\* read, the run has ended on an error that main printed, and no solve
\* operation has been invoked.
C3_MissingFieldIsParseError ==
    (files_read # {} /\ HasRecordWithoutC(filename)) =>
        /\ pc = "exited"
        /\ "error" \in printed
        /\ exit_status = "1"
        /\ NothingSolved

\* C7 (as claimed): a run ended by a startup failure other than an unknown
\* flag has a non-zero status, has printed the error message, and has solved
\* nothing.
C7_StartupFailureReported ==
    (pc = "exited" /\ failure \in {"bad_option_value", "unreadable_file", "malformed_input"}) =>
        /\ exit_status \in ExitStatuses \ {"0"}
        /\ "error" \in printed
        /\ NothingSolved

\* C8 (as claimed): a run that could not open its answer file has ended
\* without writing a block, without printing the summary, and not with
\* status 0.
C8_UnopenableIsFatal ==
    (pc = "exited" /\ out_file # "unopened" /\ ~dirWritable) =>
        /\ exit_status \in ExitStatuses \ {"0"}
        /\ "summary" \notin printed
        /\ artifact = artifact0

\* C10 (as claimed): a command line that contains an unknown flag ends with
\* usage and a non-zero status, one that contains --help ends with usage and
\* status 0, and in both cases nothing is read, solved or written.
C10_WheneverContains ==
    pc = "exited" =>
        /\ "--bogus" \in Range(argv) =>
            /\ "usage" \in printed
            /\ exit_status \in ExitStatuses \ {"0"}
            /\ files_read = {} /\ NothingSolved /\ NoArtifactTouched
        /\ "--help" \in Range(argv) =>
            /\ "usage" \in printed
            /\ exit_status = "0"
            /\ files_read = {} /\ NothingSolved /\ NoArtifactTouched

\* The positions of av that are read as flags: the first one, and the one
\* after each flag, skipping the value that --threads or --file takes.
TakesValue(av, i) == av[i] \in {"--threads", "--file"} /\ i < Len(av)

RECURSIVE FlagPositions(_, _)
FlagPositions(av, i) ==
    IF i > Len(av) THEN {}
    ELSE {i} \cup FlagPositions(av, IF TakesValue(av, i) THEN i + 2 ELSE i + 1)

\* What a flag position does to the run: nothing, or end it.
Verdict(av, i) ==
    IF av[i] \in {"--parallel", "--serial"} THEN "go on"
    ELSE IF av[i] = "--threads" /\ TakesValue(av, i)
         THEN IF CanStoi(av[i + 1]) THEN "go on" ELSE "bad value"
    ELSE IF av[i] = "--file" /\ TakesValue(av, i) THEN "go on"
    ELSE IF av[i] = "--help" THEN "help"
    ELSE "unknown"

Stops(av) == {i \in FlagPositions(av, 1) : Verdict(av, i) # "go on"}
FirstStop(av) == CHOOSE i \in Stops(av) : \A j \in Stops(av) : i <= j

\* C10 (amended): the arguments are read left to right, and the argument after
\* --threads or --file is its value, not a flag.  The first flag position that
\* is --help, is not a known flag (a --threads or --file without a value
\* included), or is a --threads whose value std::stoi rejects ends the run:
\* --help with usage and status 0, the unknown one with usage and status 1,
\* the rejected value with an abort and no usage.  In all three nothing is
\* read, solved or written; a command line without such a position is run.
C10_FirstStopDecides ==
    pc = "exited" =>
        IF Stops(argv) = {}
        THEN "usage" \notin printed /\ files_read # {}
        ELSE LET v == Verdict(argv, FirstStop(argv)) IN
             /\ v = "help" => printed = {"usage"} /\ exit_status = "0"
             /\ v = "unknown" => printed = {"unknown", "usage"} /\ exit_status = "1"
             /\ v = "bad value" => printed = {} /\ exit_status = "SIGABRT"
             /\ files_read = {}
             /\ NothingSolved
             /\ NoArtifactTouched

C10_Witness ==
    /\ pc = "exited"
    /\ "--help" \in Range(argv)
    /\ "--bogus" \in Range(argv)
    /\ exit_status = "0"
    /\ runs = 2
    /\ artifact[ParallelArtifact].exists

====
